---------------------------- MODULE Spec2Model ----------------------------
(***************************************************************************)
(* A model of bevy-snapolation: the bounded snapshot store (src/vault.rs)  *)
(* and the snapshot interpolation engine (src/snapshot_interpolation.rs).  *)
(*                                                                         *)
(* Durations are counted in nanoseconds, as std::time::Duration does.      *)
(* Option<T> is a sequence of length 0 (None) or 1 (Some).                 *)
(* A HashMap is a function whose DOMAIN is its key set.                    *)
(* A panic ends the run: `last.panic` names it and no operation follows.   *)
(***************************************************************************)
EXTENDS Integers, Sequences, FiniteSets, TLC

VARIABLES
    overflow_checks,          \* build profile: TRUE = integer overflow panics (debug), FALSE = it wraps (release)
    vault_size,               \* Vault.vault_size
    vault,                    \* Vault.vault, in stored order
    time_offset,              \* SnapshotInterpolation.time_offset (ms, -1 = not set)
    interpolation_buffer,     \* SnapshotInterpolation.interpolation_buffer (ns)
    server_time,              \* SnapshotInterpolation.server_time (ns)
    autocorrect_time_offset,  \* SnapshotInterpolation.autocorrect_time_offset
    evicted,                  \* history: the newest time among the snapshots add has dropped since construction or clear (empty: none dropped)
    in_order,                 \* history: every add so far had a time >= all times added before it
    last                      \* the last call: its name, its arguments, its outcome

vars == << overflow_checks, vault_size, vault, time_offset, interpolation_buffer,
           server_time, autocorrect_time_offset, evicted, in_order, last >>

engine_vars == << time_offset, interpolation_buffer, server_time, autocorrect_time_offset >>

-----------------------------------------------------------------------------
(* Bounds of the model *)

MaxTime == 2          \* store model: snapshot times are 0..MaxTime half milliseconds
MaxVaultSize == 3     \* store model: capacities are 1..MaxVaultSize

-----------------------------------------------------------------------------
(* Option, sequences *)

None == << >>
Some(x) == << x >>

Elems(seq) == { seq[i] : i \in DOMAIN seq }

Count(seq, x) == Cardinality({ i \in DOMAIN seq : seq[i] = x })

SameBag(s1, s2) ==
    /\ Len(s1) = Len(s2)
    /\ \A x \in Elems(s1) \cup Elems(s2) : Count(s1, x) = Count(s2, x)

RemoveAt(seq, i) == SubSeq(seq, 1, i - 1) \o SubSeq(seq, i + 1, Len(seq))

SetMax(S) == CHOOSE x \in S : \A y \in S : y <= x
SetMin(S) == CHOOSE x \in S : \A y \in S : x <= y

Times(seq) == { seq[i].time : i \in DOMAIN seq }

-----------------------------------------------------------------------------
(* Integer arithmetic of the build, Duration *)

NanosPerMilli == 1000 * 1000

\* Duration::as_millis, Duration::from_millis
AsMillis(d) == d \div NanosPerMilli
FromMillis(ms) == ms * NanosPerMilli

PanicOverflow == "attempt to subtract with overflow"
PanicNonMatching == "non-matching state value!"
PanicDuration == "overflow when subtracting durations"

\* a - b on an unsigned type.  `value` is the mathematical difference; when
\* `overflow` is TRUE the machine value is value + 2^w (w the type's width).
UnsignedSub(a, b) == [ overflow |-> a < b, value |-> a - b ]

\* slice.get(index) with the index an UnsignedSub result, counted from 0.
\* A wrapped index is value + 2^64 > isize::MAX >= len, so get finds nothing.
SliceGet(seq, index) ==
    IF ~index.overflow /\ index.value < Len(seq) THEN Some(seq[index.value + 1]) ELSE None

-----------------------------------------------------------------------------
(* f32.  A value is a fraction n/d (d > 0, in lowest terms), an infinity or   *)
(* NaN; finite arithmetic is exact, the rounding of f32 is not modelled.      *)

RECURSIVE Gcd(_, _)
Gcd(a, b) == IF b = 0 THEN a ELSE Gcd(b, a % b)

Abs(x) == IF x < 0 THEN -x ELSE x

Fin(n, d) ==
    LET g == Gcd(Abs(n), Abs(d))
        s == IF d < 0 THEN -1 ELSE 1
    IN  [ k |-> "fin", n |-> s * (n \div g), d |-> s * (d \div g) ]

F(i) == Fin(i, 1)
NaN == [ k |-> "nan", n |-> 0, d |-> 1 ]
Inf == [ k |-> "inf", n |-> 1, d |-> 1 ]
NegInf == [ k |-> "inf", n |-> -1, d |-> 1 ]

Sign(x) == IF x.n > 0 THEN 1 ELSE IF x.n < 0 THEN -1 ELSE 0

FNeg(x) == IF x.k = "nan" THEN NaN ELSE [ x EXCEPT !.n = -x.n ]

FAdd(x, y) ==
    IF x.k = "nan" \/ y.k = "nan" THEN NaN
    ELSE IF x.k = "inf" /\ y.k = "inf" THEN (IF x.n = y.n THEN x ELSE NaN)
    ELSE IF x.k = "inf" THEN x
    ELSE IF y.k = "inf" THEN y
    ELSE Fin(x.n * y.d + y.n * x.d, x.d * y.d)

FSub(x, y) == FAdd(x, FNeg(y))

FMul(x, y) ==
    IF x.k = "nan" \/ y.k = "nan" THEN NaN
    ELSE IF x.k = "inf" \/ y.k = "inf"
         THEN (IF Sign(x) * Sign(y) = 0 THEN NaN
               ELSE IF Sign(x) * Sign(y) > 0 THEN Inf ELSE NegInf)
    ELSE Fin(x.n * y.n, x.d * y.d)

\* a / b for a >= 0, b >= 0, as Duration::div_duration_f32 divides
FDivNonNeg(a, b) ==
    IF b # 0 THEN Fin(a, b) ELSE IF a = 0 THEN NaN ELSE Inf

\* x < y and x >= y; a comparison with NaN is false
FLt(x, y) ==
    /\ x.k # "nan" /\ y.k # "nan"
    /\ IF x.k = "inf" THEN x.n < 0 /\ ~(y.k = "inf" /\ y.n < 0)
       ELSE IF y.k = "inf" THEN y.n > 0
       ELSE x.n * y.d < y.n * x.d

FGe(x, y) == x.k # "nan" /\ y.k # "nan" /\ ~FLt(x, y)

\* `x as u128`: truncation toward zero, NaN and negatives to 0 (the model never
\* casts +infinity)
FToUnsigned(x) == IF x.k # "fin" \/ x.n < 0 THEN 0 ELSE x.n \div x.d

-----------------------------------------------------------------------------
(* Interpolation math *)

\* fn lerp
Lerp(start, end, t) == FAdd(FMul(FSub(end, start), t), start)

\* fn time_lerp, on milliseconds
TimeLerp(start, end, t) == FToUnsigned(FMul(F(end - start), t)) + start

\* fn degree_lerp
DegreeLerp(start, end, t) ==
    LET diff == FSub(end, start)
    IN  IF FLt(diff, F(-180))
        THEN LET result == Lerp(start, FAdd(end, F(360)), t)
             IN  IF FGe(result, F(360)) THEN FSub(result, F(360)) ELSE result
        ELSE IF FLt(F(180), diff)
        THEN LET result == Lerp(start, FSub(end, F(360)), t)
             IN  IF FLt(result, F(0)) THEN FAdd(result, F(360)) ELSE result
        ELSE Lerp(start, end, t)

\* fn radian_lerp.  Radian values are counted in units of PI: PI is F(1).
Pi == F(1)

RadianLerp(start, end, t) ==
    LET diff == FSub(end, start)
        two_pi == FMul(Pi, F(2))
    IN  IF FLt(diff, FNeg(Pi))
        THEN LET result == Lerp(start, FAdd(end, two_pi), t)
             IN  IF FGe(result, two_pi) THEN FSub(result, two_pi) ELSE result
        ELSE IF FLt(Pi, diff)
        THEN LET result == Lerp(start, FSub(end, two_pi), t)
             IN  IF FLt(result, F(0)) THEN FAdd(result, two_pi) ELSE result
        ELSE Lerp(start, end, t)

\* Vec4::lerp: self + (rhs - self) * s, component by component
QuatLerp(self, rhs, s) == [ i \in DOMAIN self |-> FAdd(self[i], FMul(FSub(rhs[i], self[i]), s)) ]

-----------------------------------------------------------------------------
(* Vault *)

NoEntities == << >>

\* sort_unstable_by(|a, b| b.time.cmp(&a.time)): the outcome is descending in
\* time; the order of snapshots of equal time is not specified.
IsSortedDesc(seq) == \A i, j \in DOMAIN seq : i < j => seq[i].time >= seq[j].time

\* the sort left out: the sequence as stored
SortSkipped(seq) == { seq }

\* the comparator turned round: a.time.cmp(&b.time)
RECURSIVE SortUnstableByTimeAsc(_)
SortUnstableByTimeAsc(seq) ==
    IF seq = << >> THEN { << >> }
    ELSE UNION { { << seq[i] >> \o rest : rest \in SortUnstableByTimeAsc(RemoveAt(seq, i)) } :
                 i \in { j \in DOMAIN seq : seq[j].time = SetMin(Times(seq)) } }

\* x placed at position i or later of a descending sequence, wherever the
\* order holds: among snapshots of its own time, at every place
RECURSIVE InsertEach(_, _, _)
InsertEach(sorted, x, i) ==
    IF i > Len(sorted) + 1 THEN {}
    ELSE (IF /\ (i = 1 \/ sorted[i - 1].time >= x.time)
             /\ (i > Len(sorted) \/ x.time >= sorted[i].time)
          THEN { SubSeq(sorted, 1, i - 1) \o << x >> \o SubSeq(sorted, i, Len(sorted)) }
          ELSE {})
         \cup InsertEach(sorted, x, i + 1)

\* the outcomes of the sort: every descending arrangement of seq
RECURSIVE SortUnstableByTimeDesc(_)
SortUnstableByTimeDesc(seq) ==
    IF Len(seq) <= 1 THEN { seq }
    ELSE UNION { InsertEach(s, seq[1], 1) : s \in SortUnstableByTimeDesc(Tail(seq)) }

\* the scan of get_two_closest and get_closest: the 0-based index of the first
\* snapshot with time <= the target, or -1 when the loop runs to its end.
FirstAtOrBefore(sorted, time) ==
    LET hits == { i \in DOMAIN sorted : sorted[i].time <= time }
    IN  IF hits = {} THEN -1 ELSE SetMin(hits) - 1

\* the neighbour taken on the other side of the match: sorted.get(index + 1)
GetTwoClosestOtherSide(sorted, time, checks) ==
    LET index == FirstAtOrBefore(sorted, time)
    IN  IF index = -1 THEN [ panic |-> "", result |-> None ]
        ELSE [ panic |-> "",
               result |-> Some(<< SliceGet(sorted, [ overflow |-> FALSE, value |-> index + 1 ]),
                                  Some(sorted[index + 1]) >>) ]

\* Vault::get_two_closest, on the sorted clone
GetTwoClosest(sorted, time, checks) ==
    LET index == FirstAtOrBefore(sorted, time)
        prev == UnsignedSub(index, 1)
    IN  IF index = -1 THEN [ panic |-> "", result |-> None ]
        ELSE IF prev.overflow /\ checks THEN [ panic |-> PanicOverflow, result |-> None ]
        ELSE [ panic |-> "",
               result |-> Some(<< SliceGet(sorted, prev), Some(sorted[index + 1]) >>) ]

\* Vault::get_closest, on the sorted clone (index - 1 is reached with index > 0 only)
GetClosest(sorted, time) ==
    LET index == FirstAtOrBefore(sorted, time)
        snapshot == sorted[index + 1]
        newer_snapshot == SliceGet(sorted, UnsignedSub(index, 1))
        abs(x) == IF x < 0 THEN -x ELSE x
    IN  IF index = -1 THEN None
        ELSE IF index = 0 THEN Some(snapshot)
        ELSE IF newer_snapshot # None
             THEN LET older == abs(AsMillis(time) - AsMillis(snapshot.time))
                      newer == abs(AsMillis(time) - AsMillis(newer_snapshot[1].time))
                  IN  IF newer <= older THEN newer_snapshot ELSE Some(snapshot)
             ELSE Some(snapshot)

\* the other end removed: Vec::remove(0)
PopFront(seq) == IF seq = << >> THEN seq ELSE Tail(seq)

\* Vec::pop
Pop(seq) == IF seq = << >> THEN seq ELSE SubSeq(seq, 1, Len(seq) - 1)

\* the capacity test off by one: len > vault_size
AddSortedOffByOne(sorted, size, snapshot) ==
    << snapshot >> \o (IF Len(sorted) > size THEN Pop(sorted) ELSE sorted)

\* Vault::add after its sort: the capacity test, the pop, the insert at 0
AddSorted(sorted, size, snapshot) ==
    << snapshot >> \o (IF Len(sorted) >= size THEN Pop(sorted) ELSE sorted)

\* history: of a set of times, the newest
Newest(S) == IF S = {} THEN {} ELSE { SetMax(S) }

\* history: the times of the snapshots of `before` that `after` no longer holds
Dropped(before, after) ==
    { x.time : x \in { y \in Elems(before) : Count(after, y) < Count(before, y) } }

\* add without its sort: pop and insert on the sequence as stored
VaultAddUnsorted(snapshot) ==
    /\ vault' = AddSorted(vault, vault_size, snapshot)
    /\ evicted' = Newest(evicted \cup Dropped(<< snapshot >> \o vault, vault'))
    /\ in_order' = (in_order /\ \A t \in Times(vault) \cup evicted : t <= snapshot.time)

\* Vault::add as a step on the store and its history
VaultAdd(snapshot) ==
    \E sorted \in SortUnstableByTimeDesc(vault) :
        /\ vault' = AddSorted(sorted, vault_size, snapshot)
        /\ evicted' = Newest(evicted \cup Dropped(<< snapshot >> \o vault, vault'))
        /\ in_order' = (in_order /\ \A t \in Times(vault) \cup evicted : t <= snapshot.time)

Running == last.panic = ""

Add(snapshot) ==
    /\ Running
    /\ VaultAdd(snapshot)
    /\ last' = [ op |-> "add", panic |-> "", snapshot |-> snapshot ]
    /\ UNCHANGED << overflow_checks, vault_size, engine_vars >>

\* Vault::clear
Clear ==
    /\ Running
    /\ vault' = << >>
    /\ evicted' = {}
    /\ in_order' = TRUE
    /\ last' = [ op |-> "clear", panic |-> "" ]
    /\ UNCHANGED << overflow_checks, vault_size, engine_vars >>

\* Vault::get_by_id
GetById(id) ==
    /\ Running
    /\ last' = [ op |-> "get_by_id", panic |-> "", id |-> id,
                 result |-> LET hits == { i \in DOMAIN vault : vault[i].id = id }
                            IN  IF hits = {} THEN None ELSE Some(vault[SetMin(hits)]) ]
    /\ UNCHANGED << overflow_checks, vault_size, vault, evicted, in_order, engine_vars >>

\* Vault::get_latest: sorts the vault in place
GetLatest ==
    /\ Running
    /\ vault' \in SortUnstableByTimeDesc(vault)
    /\ last' = [ op |-> "get_latest", panic |-> "",
                 result |-> IF vault' = << >> THEN None ELSE Some(vault'[1]) ]
    /\ UNCHANGED << overflow_checks, vault_size, evicted, in_order, engine_vars >>

\* Vault::get_two_closest
VaultGetTwoClosest(time) ==
    /\ Running
    /\ \E sorted \in SortUnstableByTimeDesc(vault) :
         LET r == GetTwoClosest(sorted, time, overflow_checks)
         IN  last' = [ op |-> "get_two_closest", panic |-> r.panic, time |-> time,
                       result |-> r.result ]
    /\ UNCHANGED << overflow_checks, vault_size, vault, evicted, in_order, engine_vars >>

\* get_closest handing out the stored snapshot itself: taken from the vault
\* rather than cloned
VaultGetClosestTaking(time) ==
    /\ Running
    /\ \E sorted \in SortUnstableByTimeDesc(vault) :
         LET r == GetClosest(sorted, time)
             hits == { i \in DOMAIN vault : r # None /\ vault[i] = r[1] }
         IN  /\ last' = [ op |-> "get_closest", panic |-> "", time |-> time, result |-> r ]
             /\ vault' = IF hits = {} THEN vault ELSE RemoveAt(vault, SetMin(hits))
    /\ UNCHANGED << overflow_checks, vault_size, evicted, in_order, engine_vars >>

\* Vault::get_closest
VaultGetClosest(time) ==
    /\ Running
    /\ \E sorted \in SortUnstableByTimeDesc(vault) :
         last' = [ op |-> "get_closest", panic |-> "", time |-> time,
                   result |-> GetClosest(sorted, time) ]
    /\ UNCHANGED << overflow_checks, vault_size, vault, evicted, in_order, engine_vars >>

-----------------------------------------------------------------------------
(* SnapshotInterpolation *)

\* the match with its last arm taken for a Number: differing tags interpolated
\* as numbers under the newer tag
InterpolateValueCoerced(state_value, older_state_value, percent) ==
    IF state_value.tag = "Quat" /\ older_state_value.tag = "Quat"
    THEN Some([ tag |-> "Quat", v |-> QuatLerp(older_state_value.v, state_value.v, percent) ])
    ELSE IF state_value.tag = "Quat" \/ older_state_value.tag = "Quat" THEN None
    ELSE Some([ tag |-> state_value.tag,
                v |-> Lerp(older_state_value.v, state_value.v, percent) ])

\* the match of interpolate on one field present in both entities: the
\* interpolated StateValue, or no value when the two tags differ (the `_` arm)
InterpolateValue(state_value, older_state_value, percent) ==
    IF state_value.tag # older_state_value.tag THEN None
    ELSE IF state_value.tag = "Number"
         THEN Some([ tag |-> "Number", v |-> Lerp(older_state_value.v, state_value.v, percent) ])
    ELSE IF state_value.tag = "Degree"
         THEN Some([ tag |-> "Degree", v |-> DegreeLerp(older_state_value.v, state_value.v, percent) ])
    ELSE IF state_value.tag = "Radian"
         THEN Some([ tag |-> "Radian", v |-> RadianLerp(older_state_value.v, state_value.v, percent) ])
    ELSE Some([ tag |-> "Quat", v |-> QuatLerp(older_state_value.v, state_value.v, percent) ])

\* older_entities.iter().find(|e| e.id == entity.id)
FindEntity(entities, id) ==
    LET hits == { i \in DOMAIN entities : entities[i].id = id }
    IN  IF hits = {} THEN None ELSE Some(entities[SetMin(hits)])

\* the (entity, state_key) pairs the loops of interpolate visit, in their order:
\* entity by entity of newer's list, state_keys in the caller's order
RECURSIVE Visits(_, _, _)
Visits(entities, state_keys, e) ==
    IF e > Len(entities) THEN << >>
    ELSE [ k \in DOMAIN state_keys |-> << entities[e], state_keys[k] >> ]
         \o Visits(entities, state_keys, e + 1)

\* the push moved out of the two `if let` on the field: an entity matched by id
\* is pushed for every requested key, with an empty state when the key is
\* missing in either snapshot
RECURSIVE InterpolateEntitiesPushingAll(_, _, _, _, _)
InterpolateEntitiesPushingAll(visits, i, older_entities, percent, pushed) ==
    IF i > Len(visits) THEN [ panic |-> "", entities |-> pushed ]
    ELSE LET entity == visits[i][1]
             state_key == visits[i][2]
             older_entity == FindEntity(older_entities, entity.id)
         IN  IF older_entity = None
             THEN InterpolateEntitiesPushingAll(visits, i + 1, older_entities, percent, pushed)
             ELSE IF state_key \notin DOMAIN entity.state
                     \/ state_key \notin DOMAIN older_entity[1].state
             THEN InterpolateEntitiesPushingAll(visits, i + 1, older_entities, percent,
                      Append(pushed, [ id |-> entity.id, state |-> << >> ]))
             ELSE LET value == InterpolateValue(entity.state[state_key],
                                                older_entity[1].state[state_key], percent)
                  IN  IF value = None
                      THEN [ panic |-> PanicNonMatching, entities |-> pushed ]
                      ELSE InterpolateEntitiesPushingAll(visits, i + 1, older_entities, percent,
                               Append(pushed, [ id |-> entity.id,
                                                state |-> (state_key :> value[1]) ]))

\* the loops of interpolate from visit i on: the entities pushed so far, until
\* the visits end or a field's tags differ
RECURSIVE InterpolateEntities(_, _, _, _, _)
InterpolateEntities(visits, i, older_entities, percent, pushed) ==
    IF i > Len(visits) THEN [ panic |-> "", entities |-> pushed ]
    ELSE LET entity == visits[i][1]
             state_key == visits[i][2]
             older_entity == FindEntity(older_entities, entity.id)
         IN  IF older_entity = None
                \/ state_key \notin DOMAIN entity.state
                \/ state_key \notin DOMAIN older_entity[1].state
             THEN InterpolateEntities(visits, i + 1, older_entities, percent, pushed)
             ELSE LET value == InterpolateValue(entity.state[state_key],
                                                older_entity[1].state[state_key], percent)
                  IN  IF value = None
                      THEN [ panic |-> PanicNonMatching, entities |-> pushed ]
                      ELSE InterpolateEntities(visits, i + 1, older_entities, percent,
                               Append(pushed, [ id |-> entity.id,
                                                state |-> (state_key :> value[1]) ]))

\* SnapshotInterpolation::interpolate: the panic it ends in if any, the value
\* it assigns to self.server_time if it gets that far, and what it returns
Interpolate(snapshot_a, snapshot_b, time, entity_key, state_keys) ==
    LET a_is_newer == snapshot_a.time >= snapshot_b.time
        newer == IF a_is_newer THEN snapshot_a ELSE snapshot_b
        older == IF a_is_newer THEN snapshot_b ELSE snapshot_a
        t0 == newer.time
        t1 == older.time
        tn == time
    IN  IF tn < t1
        THEN [ panic |-> PanicDuration, server_time |-> None, result |-> None ]
        ELSE LET percent == FDivNonNeg(tn - t1, t0 - t1)
                 lerped == FromMillis(TimeLerp(AsMillis(t1), AsMillis(t0), percent))
                 done ==
                     IF entity_key \in DOMAIN newer.entities /\ entity_key \in DOMAIN older.entities
                     THEN InterpolateEntities(
                              Visits(newer.entities[entity_key], state_keys, 1), 1,
                              older.entities[entity_key], percent, << >>)
                     ELSE [ panic |-> "", entities |-> << >> ]
             IN  IF done.panic # ""
                 THEN [ panic |-> done.panic, server_time |-> Some(lerped), result |-> None ]
                 ELSE [ panic |-> "", server_time |-> Some(lerped),
                        result |-> Some([ entities |-> done.entities,
                                          percentage |-> percent,
                                          newer_id |-> newer.id,
                                          older_id |-> older.id ]) ]

\* SnapshotInterpolation::create_snapshot at time `now`
CreateSnapshot(now, entities) == [ id |-> AsMillis(now), time |-> now, entities |-> entities ]

\* Duration::from_secs_f32((1. / server_fps) * 3.), for a server_fps that
\* divides a second into whole nanoseconds
InterpolationBuffer(server_fps) == 3 * ((1000 * NanosPerMilli) \div server_fps)

\* add_snapshot up to vault.add: self.time_offset after the two ifs.
\* now.as_millis() - snapshot.time.as_millis() is a u128 subtraction cast to
\* i128: it panics under overflow checks when the snapshot's time is ahead of
\* now, and otherwise the cast of the wrapped value is the signed difference.
TimeOffsetAfter(offset, autocorrect, now, time, checks) ==
    LET diff == UnsignedSub(AsMillis(now), AsMillis(time))
        first == IF offset = -1 THEN diff.value ELSE offset
        time_difference == Abs(first - diff.value)
    IN  IF (offset = -1 \/ autocorrect) /\ diff.overflow /\ checks
        THEN [ panic |-> PanicOverflow, time_offset |-> offset ]
        ELSE [ panic |-> "",
               time_offset |-> IF autocorrect /\ time_difference > 50
                               THEN time_difference ELSE first ]

\* SnapshotInterpolation::add_snapshot, with SystemTime::now() read as `now`
AddSnapshot(snapshot, now) ==
    /\ Running
    /\ LET r == TimeOffsetAfter(time_offset, autocorrect_time_offset, now, snapshot.time,
                                overflow_checks)
       IN  /\ time_offset' = r.time_offset
           /\ last' = [ op |-> "add_snapshot", panic |-> r.panic, now |-> now,
                        snapshot |-> snapshot ]
           /\ IF r.panic = "" THEN VaultAdd(snapshot)
              ELSE UNCHANGED << vault, evicted, in_order >>
    /\ UNCHANGED << overflow_checks, vault_size, interpolation_buffer, server_time,
                    autocorrect_time_offset >>

\* `server_time as u64` and Duration::from_millis of it.  A negative
\* server_time wraps to 2^64 + server_time milliseconds, some 584 million
\* years: later than all the times `horizon` holds, it stands as the first
\* instant after them.
RenderTime(server_time_ms, horizon) ==
    IF server_time_ms >= 0 THEN FromMillis(server_time_ms)
    ELSE SetMax(horizon \cup { 0 }) + 1

\* calc_interpolation with the bracket search left to the stored order
CalcInterpolationOn(sorted, now, entity_key, state_keys) ==
    LET ms == AsMillis(now) - time_offset - AsMillis(interpolation_buffer)
        target == RenderTime(ms, Times(vault))
        shots == GetTwoClosest(sorted, target, overflow_checks)
    IN  IF shots.panic # ""
        THEN [ panic |-> shots.panic, server_time |-> None, result |-> None,
               render_ms |-> ms, target |-> target ]
        ELSE IF shots.result # None /\ shots.result[1][1] # None /\ shots.result[1][2] # None
        THEN [ render_ms |-> ms, target |-> target ]
             @@ Interpolate(shots.result[1][1][1], shots.result[1][2][1], target,
                            entity_key, state_keys)
        ELSE [ panic |-> "", server_time |-> None, result |-> None,
               render_ms |-> ms, target |-> target ]

\* SnapshotInterpolation::calc_interpolation, with SystemTime::now() read as `now`
CalcInterpolation(now, entity_key, state_keys) ==
    /\ Running
    /\ \E sorted \in SortUnstableByTimeDesc(vault) :
         LET r == CalcInterpolationOn(sorted, now, entity_key, state_keys)
         IN  /\ server_time' = IF r.server_time = None THEN server_time ELSE r.server_time[1]
             /\ last' = [ op |-> "calc_interpolation", panic |-> r.panic, now |-> now,
                          render_ms |-> r.render_ms, target |-> r.target,
                          result |-> r.result ]
    /\ UNCHANGED << overflow_checks, vault_size, vault, evicted, in_order, time_offset,
                    interpolation_buffer, autocorrect_time_offset >>

\* a call of SnapshotInterpolation::interpolate with the arguments `last` holds
CallInterpolate ==
    /\ last.op = "call_interpolate"
    /\ LET r == Interpolate(last.snapshot_a, last.snapshot_b, last.time, last.entity_key,
                            last.state_keys)
       IN  /\ server_time' = IF r.server_time = None THEN server_time ELSE r.server_time[1]
           /\ last' = [ last EXCEPT !.op = "interpolate", !.panic = r.panic,
                                    !.result = r.result ]
    /\ UNCHANGED << overflow_checks, vault_size, vault, evicted, in_order, time_offset,
                    interpolation_buffer, autocorrect_time_offset >>

-----------------------------------------------------------------------------
(* The store on its own: any capacity >= 1, snapshots in any time order *)

TimeGrain == NanosPerMilli \div 2

VaultTimes == { k * TimeGrain : k \in 0..MaxTime }

\* two ids, so that two stored snapshots of one time can differ
VaultIds == { 0, 1 }

VaultSnapshots ==
    { [ id |-> i, time |-> t, entities |-> NoEntities ] : i \in VaultIds, t \in VaultTimes }

\* query targets: every snapshot time, and one past the last
QueryTimes == { k * TimeGrain : k \in 0..(MaxTime + 1) }

\* Vault { vault_size, vault: Vec::new() }, in either build profile
Init ==
    /\ overflow_checks \in BOOLEAN
    /\ vault_size \in 1..MaxVaultSize
    /\ vault = << >>
    /\ evicted = {}
    /\ in_order = TRUE
    /\ time_offset = -1
    /\ interpolation_buffer = 0
    /\ server_time = 0
    /\ autocorrect_time_offset = TRUE
    /\ last = [ op |-> "new", panic |-> "" ]

Next ==
    \/ \E s \in VaultSnapshots : Add(s)
    \/ Clear
    \/ \E i \in VaultIds : GetById(i)
    \/ GetLatest
    \/ \E t \in QueryTimes : VaultGetTwoClosest(t)
    \/ \E t \in QueryTimes : VaultGetClosest(t)

Spec == Init /\ [][Next]_vars

-----------------------------------------------------------------------------
(* Claims about the store, checked under Spec *)

AtOrBefore(time) == { s \in Elems(vault) : s.time <= time }
After(time) == { s \in Elems(vault) : s.time > time }

\* C1: get_two_closest(target) on any store, whatever the order it was filled
\* in: with a snapshot at or before the target and one after it, the result is
\* Some([Some(newer), Some(older)]), older a stored snapshot of the greatest
\* time <= target and newer a stored snapshot of the smallest time > target;
\* with no snapshot at or before the target the result is None.
C1_TwoClosestBrackets ==
    last.op = "get_two_closest" =>
        LET older == AtOrBefore(last.time)
            newer == After(last.time)
        IN  /\ (older # {} /\ newer # {}) =>
                /\ last.panic = ""
                /\ \E n \in newer, o \in older :
                     /\ last.result = Some(<< Some(n), Some(o) >>)
                     /\ o.time = SetMax({ s.time : s \in older })
                     /\ n.time = SetMin({ s.time : s \in newer })
            /\ older = {} => (last.panic = "" /\ last.result = None)

C1_Witness ==
    /\ last.op = "get_two_closest"
    /\ ~IsSortedDesc(vault)
    /\ Len(vault) >= 3
    /\ last.result # None
    /\ last.result[1][1] # None

\* C2: get_two_closest(target) on a store whose newest snapshot is at or before
\* the target completes normally with Some([None, Some(newest snapshot)]).
C2_NewestAtOrBeforeTarget ==
    (last.op = "get_two_closest" /\ vault # << >> /\ After(last.time) = {}) =>
        /\ last.panic = ""
        /\ \E o \in Elems(vault) :
             /\ o.time = SetMax(Times(vault))
             /\ last.result = Some(<< None, Some(o) >>)

\* C3 as claimed: after any adds, in any time order, the store holds the
\* vault_size snapshots of greatest time of all those added (all of them while
\* fewer were added): nothing was dropped before the store was full, and no
\* dropped snapshot is newer than a stored one.
C3_KeepsNewestAnyOrder ==
    /\ evicted # {} => Len(vault) = vault_size
    /\ \A e \in evicted : \A t \in Times(vault) : e <= t

\* C3 amended: the same, for snapshots added in non-decreasing time order.
C3_KeepsNewestInOrder == in_order => C3_KeepsNewestAnyOrder

C3_Witness ==
    /\ last.op = "add"
    /\ in_order
    /\ evicted # {}
    /\ Cardinality(Times(vault)) >= 2

\* C4: from an empty store of capacity >= 1, through any adds and clears, the
\* store never holds more than vault_size snapshots, and right after an add the
\* added snapshot is in the store.
C4_BoundedAndAccepted ==
    /\ Len(vault) <= vault_size
    /\ last.op = "add" => last.snapshot \in Elems(vault)

C4_Witness ==
    /\ last.op = "add"
    /\ Len(vault) = vault_size
    /\ evicted # {}
    /\ \A i \in DOMAIN vault : i > 1 => vault[i].time > last.snapshot.time

\* C5: an add on a full store drops exactly one snapshot, one of the smallest
\* time among those stored before the call, and keeps all the others; an add on
\* a store that is not full drops none.
C5_EvictionVictim ==
    [][ last'.op = "add" =>
          IF Len(vault) >= vault_size
          THEN \E i \in DOMAIN vault :
                 /\ vault[i].time = SetMin(Times(vault))
                 /\ SameBag(vault', << last'.snapshot >> \o RemoveAt(vault, i))
          ELSE SameBag(vault', << last'.snapshot >> \o vault) ]_vars

C5_Witness ==
    /\ last.op = "add"
    /\ evicted # {}
    /\ ~IsSortedDesc(vault)
    /\ Len(vault) >= 2

\* C6 as claimed: after each add the stored sequence is in descending time order.
C6_SortedAfterAdd == last.op = "add" => IsSortedDesc(vault)

\* C6 amended: after each add the stored sequence behind the snapshot just
\* inserted at the front is in descending time order, so the whole sequence is
\* whenever the added snapshot is not older than any stored one.
C6_SortedBehindInserted ==
    last.op = "add" =>
        /\ vault # << >> /\ vault[1] = last.snapshot
        /\ IsSortedDesc(Tail(vault))
        /\ (\A t \in Times(vault) : t <= last.snapshot.time) => IsSortedDesc(vault)

C6_Witness ==
    /\ last.op = "add"
    /\ Len(vault) >= 3
    /\ ~IsSortedDesc(vault)
    /\ Cardinality(Times(Tail(vault))) >= 2

-----------------------------------------------------------------------------
(* The engine: SnapshotInterpolation::new, then add_snapshot and              *)
(* calc_interpolation in any order, the clock read at each call.              *)

MaxSnapshots == 3     \* engine model: snapshots ingested

DefaultVaultSize == 120

ServerFps == { 100 }

\* snapshot times (producer clock) and clock readings (local clock), in ms and
\* half ms: apart by less than, exactly and more than the 50 ms of the offset
\* rule, ahead of and behind each other
EngineSnapshotTimes == { 0, FromMillis(30), FromMillis(80) + TimeGrain, FromMillis(81) }
EngineNow == { FromMillis(30), FromMillis(80), FromMillis(111), FromMillis(200) }

EngineEntities(time) ==
    "players" :> << [ id |-> 1, state |-> ("x" :> [ tag |-> "Number", v |-> F(AsMillis(time)) ]) ] >>

EngineSnapshots == { CreateSnapshot(t, EngineEntities(t)) : t \in EngineSnapshotTimes }

\* SnapshotInterpolation::new(server_fps).  autocorrect_time_offset is a field
\* new sets to true; both values are modelled for the branch that reads it.
InitEngine ==
    /\ overflow_checks \in BOOLEAN
    /\ vault_size = DefaultVaultSize
    /\ vault = << >>
    /\ evicted = {}
    /\ in_order = TRUE
    /\ time_offset = -1
    /\ \E fps \in ServerFps : interpolation_buffer = InterpolationBuffer(fps)
    /\ server_time = 0
    /\ autocorrect_time_offset \in BOOLEAN
    /\ last = [ op |-> "new", panic |-> "" ]

NextEngine ==
    \/ \E s \in EngineSnapshots, now \in EngineNow :
         Len(vault) < MaxSnapshots /\ AddSnapshot(s, now)
    \/ \E now \in EngineNow : CalcInterpolation(now, "players", << "x" >>)

SpecEngine == InitEngine /\ [][NextEngine]_vars

-----------------------------------------------------------------------------
(* Claims about the engine, checked under SpecEngine *)

\* now - snapshot.time in milliseconds, as add_snapshot measures it
InstantOffset(call) == AsMillis(call.now) - AsMillis(call.snapshot.time)

\* C7: the first add_snapshot of an engine (time_offset still -1) leaves
\* time_offset = now - snapshot.time in milliseconds, whatever the snapshot's
\* time and whether autocorrect is on or off.
C7_FirstSnapshotSetsOffset ==
    [][ (last'.op = "add_snapshot" /\ time_offset = -1) =>
            time_offset' = InstantOffset(last') ]_vars

\* C8: an add_snapshot with time_offset set and autocorrect on, with
\* d = |time_offset - (now - snapshot.time)|: time_offset becomes d when
\* d > 50 and stays when d <= 50; with autocorrect off it stays.
C8_AutocorrectRule ==
    [][ (last'.op = "add_snapshot" /\ time_offset # -1) =>
            LET d == Abs(time_offset - InstantOffset(last'))
            IN  time_offset' = IF autocorrect_time_offset /\ d > 50 THEN d ELSE time_offset ]_vars

\* C9: calc_interpolation, with render time = now - time_offset -
\* interpolation_buffer, returns a result only when the store holds a snapshot
\* at or before the render time and one after it; otherwise (store empty,
\* render time before all snapshots, or no snapshot after it) it returns None
\* without failing and leaves the store and time_offset as they were.
C9_InsufficientHistoryIsNone ==
    [][ last'.op = "calc_interpolation" =>
            LET render == FromMillis(AsMillis(last'.now) - time_offset
                                     - AsMillis(interpolation_buffer))
                bracketed == AtOrBefore(render) # {} /\ After(render) # {}
            IN  /\ last'.render_ms * NanosPerMilli = render
                /\ last'.result # None => bracketed
                /\ ~bracketed => /\ last'.panic = ""
                                 /\ last'.result = None
                                 /\ vault' = vault
                                 /\ time_offset' = time_offset ]_vars

MaxFurtherAdds == 4   \* engine claims: add_snapshot calls followed beyond a reached state

\* time_offset after n more add_snapshot calls that measure the same
\* now - snapshot.time as `call` did
RECURSIVE OffsetAfterAdds(_, _, _)
OffsetAfterAdds(offset, call, n) ==
    IF n = 0 THEN offset
    ELSE OffsetAfterAdds(
             TimeOffsetAfter(offset, autocorrect_time_offset, call.now, call.snapshot.time,
                             overflow_checks).time_offset,
             call, n - 1)

\* C19: with autocorrect on, from any add_snapshot on, further add_snapshot
\* calls that all measure the same D = now - snapshot.time bring time_offset
\* within 50 ms of D after finitely many calls.  On finite runs: the offsets
\* those calls produce do not come back to an earlier value before one of them
\* is within 50 ms of D (from a repeated value on, the same offsets recur for
\* ever).
C19_OffsetConverges ==
    (last.op = "add_snapshot" /\ last.panic = "" /\ autocorrect_time_offset) =>
        LET D == InstantOffset(last)
            far(n) == Abs(OffsetAfterAdds(time_offset, last, n) - D) > 50
        IN  ~\E m \in 1..MaxFurtherAdds, n \in 0..MaxFurtherAdds :
                /\ n < m
                /\ OffsetAfterAdds(time_offset, last, n) = OffsetAfterAdds(time_offset, last, m)
                /\ \A j \in 0..m : far(j)

\* C20: time_offset starts at the sentinel -1; an add_snapshot that returns
\* leaves it initialized (not -1), and no add_snapshot or calc_interpolation
\* takes an initialized time_offset back to -1, so that only the first
\* add_snapshot takes the branch for an uninitialized offset.
C20_InitializedOnce ==
    [][ /\ (last'.op = "add_snapshot" /\ last'.panic = "") => time_offset' # -1
        /\ time_offset # -1 => time_offset' # -1 ]_vars

-----------------------------------------------------------------------------
(* interpolate on its own: one call on two snapshots, a target time, a group  *)
(* key and the requested state keys, all drawn by InitInterpolate.            *)

MaxEntities == 2      \* interpolate model: entities in a snapshot's group

\* An entity has field "y" and may have field "x", a Number or a Degree; the
\* values follow from the snapshot's time.
InterpState(id, x, time) ==
    LET y == IF id = 1
             THEN [ tag |-> "Radian", v |-> Fin(AsMillis(time), 20) ]
             ELSE [ tag |-> "Quat", v |-> << F(0), F(0), F(AsMillis(time)), F(1) >> ]
    IN  IF x = "none" THEN "y" :> y
        ELSE IF x = "Number" THEN ("x" :> [ tag |-> "Number", v |-> F(AsMillis(time) + id) ]) @@ ("y" :> y)
        ELSE ("x" :> [ tag |-> "Degree", v |-> IF time = 0 THEN F(350) ELSE F(10) ]) @@ ("y" :> y)

InterpEntities(time) ==
    { [ id |-> i, state |-> InterpState(i, x, time) ] :
        i \in { 1, 2 }, x \in { "none", "Number", "Degree" } }

\* the sequences over S of length at most n
RECURSIVE SeqsUpTo(_, _)
SeqsUpTo(S, n) ==
    IF n = 0 THEN { << >> }
    ELSE LET shorter == SeqsUpTo(S, n - 1)
         IN  shorter \cup { Append(s, x) : s \in shorter, x \in S }

\* a snapshot's entities: no "players" group, or one of at most MaxEntities entities
InterpSnapshots(time) ==
    { CreateSnapshot(time, NoEntities) }
    \cup { CreateSnapshot(time, "players" :> list) :
             list \in SeqsUpTo(InterpEntities(time), MaxEntities) }

\* (snapshot_a.time, snapshot_b.time, time): a first, b first, equal times;
\* the target inside, at the ends of, past and before the interval
InterpTimings ==
    { << FromMillis(30), 0, FromMillis(15) >>,
      << 0, FromMillis(30), FromMillis(45) >>,
      << FromMillis(30), 0, 0 >>,
      << 0, FromMillis(30), FromMillis(30) >>,
      << FromMillis(30), FromMillis(30), FromMillis(30) >>,
      << FromMillis(30), FromMillis(30), FromMillis(45) >>,
      << FromMillis(30), FromMillis(30), FromMillis(15) >>,
      << FromMillis(15), FromMillis(30), 0 >> }

InterpStateKeys == { << "x" >>, << "y", "x" >> }

InitInterpolate ==
    /\ overflow_checks = FALSE
    /\ vault_size = DefaultVaultSize
    /\ vault = << >>
    /\ evicted = {}
    /\ in_order = TRUE
    /\ time_offset = -1
    /\ \E fps \in ServerFps : interpolation_buffer = InterpolationBuffer(fps)
    /\ server_time = 0
    /\ autocorrect_time_offset = TRUE
    /\ \E timing \in InterpTimings :
         \E a \in InterpSnapshots(timing[1]), b \in InterpSnapshots(timing[2]),
            keys \in InterpStateKeys :
           last = [ op |-> "call_interpolate", panic |-> "", snapshot_a |-> a,
                    snapshot_b |-> b, time |-> timing[3], entity_key |-> "players",
                    state_keys |-> keys, result |-> None ]

NextInterpolate == CallInterpolate

SpecInterpolate == InitInterpolate /\ [][NextInterpolate]_vars

-----------------------------------------------------------------------------
(* Claims about interpolate, checked under SpecInterpolate *)

NewerOf(call) ==
    IF call.snapshot_a.time >= call.snapshot_b.time THEN call.snapshot_a ELSE call.snapshot_b
OlderOf(call) ==
    IF call.snapshot_a.time >= call.snapshot_b.time THEN call.snapshot_b ELSE call.snapshot_a

GroupOf(snapshot, entity_key) ==
    IF entity_key \in DOMAIN snapshot.entities THEN snapshot.entities[entity_key] ELSE << >>

\* the requested fields interpolate meets with different tags: a state key, an
\* entity of newer's group and its match by id in older's group (the first of
\* that id) that both hold the key, under different tags
Mismatches(call) ==
    LET newer == GroupOf(NewerOf(call), call.entity_key)
        older == GroupOf(OlderOf(call), call.entity_key)
    IN  { << e, k >> \in (DOMAIN newer) \X (DOMAIN call.state_keys) :
            LET key == call.state_keys[k]
                match == FindEntity(older, newer[e].id)
            IN  /\ match # None
                /\ key \in DOMAIN newer[e].state
                /\ key \in DOMAIN match[1].state
                /\ newer[e].state[key].tag # match[1].state[key].tag }

\* C10: when interpolate meets a requested field that the matched entity holds
\* in both snapshots under different tags, the call ends in the panic
\* "non-matching state value!", which no other failure of the model raises,
\* and returns no result: no value is computed for the field and the field is
\* not skipped.
C10_TypeMismatchPanics ==
    (last.op = "interpolate" /\ last.time >= OlderOf(last).time) =>
        /\ Mismatches(last) # {} => (last.panic = PanicNonMatching /\ last.result = None)
        /\ Mismatches(last) = {} => last.panic = ""

C10_Witness ==
    /\ last.op = "interpolate"
    /\ last.panic = PanicNonMatching
    /\ last.state_keys = << "y", "x" >>
    /\ Len(GroupOf(NewerOf(last), "players")) = 2
    /\ \A m \in Mismatches(last) : m[1] = 2

\* C11: interpolate on two snapshots of one time either returns no result or
\* returns one whose percentage is 0: never a result whose percentage is NaN
\* or infinite.
C11_DegenerateIntervalIsZero ==
    (last.op = "interpolate" /\ last.snapshot_a.time = last.snapshot_b.time
        /\ last.result # None) =>
        last.result[1].percentage = F(0)

\* C12: interpolate on two snapshots of different times, for any target time
\* (before the older, between the two, after the newer) and in either argument
\* order, completes with
\* percentage = (time - older.time) / (newer.time - older.time),
\* unless tags differ (C10).
C12_FractionUnclamped ==
    (last.op = "interpolate" /\ last.snapshot_a.time # last.snapshot_b.time
        /\ Mismatches(last) = {}) =>
        /\ last.panic = ""
        /\ last.result # None
        /\ last.result[1].percentage =
               Fin(last.time - OlderOf(last).time, NewerOf(last).time - OlderOf(last).time)
        /\ last.result[1].newer_id = NewerOf(last).id
        /\ last.result[1].older_id = OlderOf(last).id

\* the pairs (entity of newer's group, requested key), entity by entity and
\* key by key, that have an entity of the same id in older's group (the first
\* of that id) with the key present in both states
InterpolablePairs(call) ==
    LET newer == GroupOf(NewerOf(call), call.entity_key)
        older == GroupOf(OlderOf(call), call.entity_key)
        keys == call.state_keys
        pair(n) == << newer[((n - 1) \div Len(keys)) + 1], keys[((n - 1) % Len(keys)) + 1] >>
        holds(p) == LET match == FindEntity(older, p[1].id)
                    IN  /\ match # None
                        /\ p[2] \in DOMAIN p[1].state
                        /\ p[2] \in DOMAIN match[1].state
    IN  SelectSeq([ n \in 1..(Len(newer) * Len(keys)) |-> pair(n) ], holds)

\* C17: a call of interpolate that returns holds, in its entity list, exactly
\* one record for each pair (entity e of newer's group, requested key k) such
\* that older's group has an entity of e's id and k is in the state of both:
\* the record has e's id and the one field k.  Pairs whose entity or field is
\* missing in either snapshot give no record and no failure: the call returns
\* whenever no field's tags differ (C10) and the target is not before the
\* older time (C12).
C17_OneRecordPerPair ==
    (last.op = "interpolate" /\ last.time >= OlderOf(last).time /\ Mismatches(last) = {}) =>
        /\ last.panic = ""
        /\ last.result # None
        /\ LET records == last.result[1].entities
               pairs == InterpolablePairs(last)
           IN  /\ Len(records) = Len(pairs)
               /\ \A n \in DOMAIN pairs :
                    /\ records[n].id = pairs[n][1].id
                    /\ DOMAIN records[n].state = { pairs[n][2] }

\* entity 1 with both requested fields gives two records, entity 2 with no
\* match in the older snapshot gives none
C17_Witness ==
    /\ last.op = "interpolate"
    /\ last.result # None
    /\ last.state_keys = << "y", "x" >>
    /\ Len(GroupOf(NewerOf(last), "players")) = 2
    /\ GroupOf(NewerOf(last), "players")[2].id = 2
    /\ Len(GroupOf(OlderOf(last), "players")) = 2
    /\ "x" \notin DOMAIN GroupOf(OlderOf(last), "players")[2].state
    /\ Len(last.result[1].entities) = 2
    /\ \A n \in { 1, 2 } : last.result[1].entities[n].id = 1
    /\ DOMAIN last.result[1].entities[1].state = { "y" }
    /\ DOMAIN last.result[1].entities[2].state = { "x" }

-----------------------------------------------------------------------------
(* More claims about the store, checked under Spec *)

\* C13: get_closest(target) with a stored snapshot at or before the target and
\* one after it returns a snapshot of the bracketing pair (greatest time <=
\* target, smallest time > target) whose distance to the target is the smaller
\* of the two (either of the pair when they are equally far); when no stored
\* snapshot is after the target it returns a snapshot of the newest time.
C13_ClosestOfBracket ==
    (last.op = "get_closest" /\ AtOrBefore(last.time) # {}) =>
        LET ot == SetMax({ s.time : s \in AtOrBefore(last.time) })
        IN  /\ last.result # None
            /\ last.result[1] \in Elems(vault)
            /\ IF After(last.time) = {} THEN last.result[1].time = ot
               ELSE LET nt == SetMin({ s.time : s \in After(last.time) })
                        r == last.result[1].time
                    IN  /\ r \in { ot, nt }
                        /\ Abs(last.time - r) <= Abs(last.time - ot)
                        /\ Abs(last.time - r) <= Abs(last.time - nt)

-----------------------------------------------------------------------------
(* The interpolation of one field on its own: the match of interpolate on a   *)
(* Number, Degree or Radian held in both snapshots, for a fraction in [0, 1]  *)

TSteps == 4           \* field model: the fractions are k/TSteps, k = 0..TSteps

\* angles in degrees: inside [0, 360), on its edges, at a half turn from each
\* other, and outside it
FieldDegrees == { -90, 0, 10, 90, 170, 180, 190, 270, 350, 360, 450 }

\* the stored values of a tag: degrees as they are, radians in units of PI
FieldValues(tag) ==
    { [ tag |-> tag, v |-> IF tag = "Radian" THEN Fin(a, 180) ELSE F(a) ] : a \in FieldDegrees }

InitField ==
    /\ overflow_checks = FALSE
    /\ vault_size = DefaultVaultSize
    /\ vault = << >>
    /\ evicted = {}
    /\ in_order = TRUE
    /\ time_offset = -1
    /\ \E fps \in ServerFps : interpolation_buffer = InterpolationBuffer(fps)
    /\ server_time = 0
    /\ autocorrect_time_offset = TRUE
    /\ \E tag \in { "Number", "Degree", "Radian" } :
         \E newer \in FieldValues(tag), older \in FieldValues(tag), k \in 0..TSteps :
           last = [ op |-> "call_field", panic |-> "", state_value |-> newer,
                    older_state_value |-> older, percent |-> Fin(k, TSteps),
                    result |-> None ]

\* the match arm of interpolate on the field `last` holds
InterpolateField ==
    /\ last.op = "call_field"
    /\ last' = [ last EXCEPT !.op = "field",
                             !.result = InterpolateValue(last.state_value,
                                                         last.older_state_value,
                                                         last.percent) ]
    /\ UNCHANGED << overflow_checks, vault_size, vault, evicted, in_order, engine_vars >>

NextField == InterpolateField

SpecField == InitField /\ [][NextField]_vars

-----------------------------------------------------------------------------
(* Claims about the interpolation of a field, checked under SpecField *)

FAbs(x) == IF Sign(x) < 0 THEN FNeg(x) ELSE x
FMin(x, y) == IF FLt(y, x) THEN y ELSE x

\* 360 for a Degree, 2 PI for a Radian
FullTurn(tag) == IF tag = "Radian" THEN FMul(Pi, F(2)) ELSE F(360)

InTurn(x, full) == FGe(x, F(0)) /\ FLt(x, full)

\* a finite angle brought into [0, full)
Normalized(x, full) == FSub(x, FMul(full, F((x.n * full.d) \div (x.d * full.n))))

\* the length of the shorter arc between two angles
ArcDistance(a, b, full) ==
    LET d == FAbs(FSub(Normalized(a, full), Normalized(b, full)))
    IN  FMin(d, FSub(full, d))

\* r lies on a shortest arc from start to end
OnShorterArc(start, end, r, full) ==
    FAdd(ArcDistance(start, r, full), ArcDistance(r, end, full)) = ArcDistance(start, end, full)

AngleCall == last.op = "field" /\ last.state_value.tag \in { "Degree", "Radian" }

AngleInRangeOnShorterArc ==
    LET full == FullTurn(last.state_value.tag)
        r == last.result[1].v
    IN  /\ r.k = "fin"
        /\ InTurn(r, full)
        /\ OnShorterArc(last.older_state_value.v, last.state_value.v, r, full)

\* C14: degree_lerp (full turn 360) and radian_lerp (full turn 2 PI), for
\* every start and end angle and every t in [0, 1], give a result in
\* [0, full turn) that lies on the shorter arc between start and end.
C14_AngleAnyInput == AngleCall => AngleInRangeOnShorterArc

\* C15: a Number, Degree or Radian field interpolated with t = 0 is exactly
\* the older snapshot's value, and with t = 1 exactly the newer snapshot's
\* value, whatever the two stored values.
C15_EndpointsExact ==
    last.op = "field" =>
        /\ last.percent = F(0) => last.result = Some(last.older_state_value)
        /\ last.percent = F(1) => last.result = Some(last.state_value)

-----------------------------------------------------------------------------
(* The engine and the accessors of its store together: every operation that   *)
(* reads or writes a Vault, on the Vault an engine holds                      *)

\* interpolate called on two snapshots the store holds
InterpolateStored(i, j, time) ==
    /\ Running
    /\ LET r == Interpolate(vault[i], vault[j], time, "players", << "x" >>)
       IN  /\ server_time' = IF r.server_time = None THEN server_time ELSE r.server_time[1]
           /\ last' = [ op |-> "interpolate", panic |-> r.panic, snapshot_a |-> vault[i],
                        snapshot_b |-> vault[j], time |-> time, entity_key |-> "players",
                        state_keys |-> << "x" >>, result |-> r.result ]
    /\ UNCHANGED << overflow_checks, vault_size, vault, evicted, in_order, time_offset,
                    interpolation_buffer, autocorrect_time_offset >>

\* two snapshot times and two readings of the clock: enough for a store of
\* several snapshots, out of order and of equal times, that calc_interpolation
\* finds a bracket in
StoreEngineSnapshots == { s \in EngineSnapshots : s.time \in { 0, FromMillis(30) } }
StoreEngineNow == { FromMillis(80), FromMillis(111) }

NextStoreEngine ==
    \/ \E s \in StoreEngineSnapshots, now \in StoreEngineNow :
         Len(vault) < MaxSnapshots /\ AddSnapshot(s, now)
    \/ \E now \in StoreEngineNow : CalcInterpolation(now, "players", << "x" >>)
    \/ \E i, j \in DOMAIN vault, t \in StoreEngineNow : InterpolateStored(i, j, t)
    \/ \E s \in StoreEngineSnapshots : Len(vault) < MaxSnapshots /\ Add(s)
    \/ Clear
    \/ \E s \in StoreEngineSnapshots : GetById(s.id)
    \/ GetLatest
    \/ \E s \in StoreEngineSnapshots : VaultGetTwoClosest(s.time)
    \/ \E s \in StoreEngineSnapshots : VaultGetClosest(s.time)

SpecStoreEngine == InitEngine /\ [][NextStoreEngine]_vars

Queries == { "get_by_id", "get_two_closest", "get_closest", "interpolate", "calc_interpolation" }

\* C16: get_by_id, get_two_closest, get_closest, interpolate and
\* calc_interpolation, whether they return or panic, leave the stored
\* snapshots as they were: the same snapshots with the same id, time and
\* entities; a step that changes which snapshots are stored is an add (also
\* through add_snapshot) or a clear.
C16_QueriesLeaveStore ==
    [][ /\ last'.op \in Queries => SameBag(vault, vault')
        /\ ~SameBag(vault, vault') => last'.op \in { "add", "add_snapshot", "clear" } ]_vars

C16_Witness ==
    /\ Len(vault) = 2
    /\ last.op = "get_closest"
    /\ last.result # None
    /\ last.result[1] = vault[2]

====
